---- MODULE Spec2Model ----
(***************************************************************************)
(* Athlete load monitoring: the preprocessing, feature and merge transforms *)
(* of src/src/preprocess.py and src/src/features.py, the report and export   *)
(* tables of src/src/reporting.py and src/src/powerbi_export.py, modelled as *)
(* operators over tables, and the runs of main() of the notebooks.           *)
(* A table is a sequence of rows, a row is a record of cells,                *)
(* and a cell is a record [k, v]: k = "num" with the number v, k = "na" for  *)
(* a missing value (NaN / NaT), k = "text" for a string that is no number    *)
(* and no date.  A number is kept exactly, as v / sqrt(d) with integers v    *)
(* and d > 0 (d = 1 for an integer); k = "inf" is the float infinity with   *)
(* the sign of v.  player_id and date of cleaned tables are plain integers   *)
(* (the day number of the date).                                             *)
(***************************************************************************)
EXTENDS Integers, Sequences, FiniteSets, TLC

VARIABLES pc, players, sessions, wellness, daily, args, ret, raised,
          locals, trace, files

vars == <<pc, players, sessions, wellness, daily, args, ret, raised,
          locals, trace, files>>

(***************************************************************************)
(* Cells                                                                   *)
(***************************************************************************)
NA == [k |-> "na", v |-> 0, d |-> 1]

N(x) == [k |-> "num", v |-> x, d |-> 1]

Text == [k |-> "text", v |-> 0, d |-> 1]

IsNA(c) == c.k = "na"

Max(a, b) == IF a >= b THEN a ELSE b

RECURSIVE SumSet(_, _)
SumSet(f, S) ==
    IF S = {} THEN 0
    ELSE LET x == CHOOSE y \in S : TRUE IN f[x] + SumSet(f, S \ {x})

\* No run of a notebook's main() is under way: a transform is called on its own.
NoRun == locals = <<>> /\ trace = <<>> /\ files = {}

\* out[c] = x for one row: the column is added, or replaced if it exists.
SetColumn(r, c, x) == [k \in DOMAIN r \cup {c} |-> IF k = c THEN x ELSE r[k]]

\* All sequences over S of length 0..n.
SeqsUpTo(S, n) == UNION {[1..m -> S] : m \in 0..n}

(***************************************************************************)
(* DataFrame.sort_values(["player_id", "date"]).reset_index(drop=True):    *)
(* a stable lexicographic sort, ties keep their input order.               *)
(***************************************************************************)
\* A sort on player_id alone: the rows of one player keep their input order.
KeyLEPlayerOnly(a, b) == a.player_id <= b.player_id

KeyLE(a, b) ==
    \/ a.player_id < b.player_id
    \/ a.player_id = b.player_id /\ a.date <= b.date

InsertAfterLE(t, r) ==
    LET n == Cardinality({i \in 1..Len(t) : KeyLE(t[i], r)})
    IN SubSeq(t, 1, n) \o <<r>> \o SubSeq(t, n + 1, Len(t))

RECURSIVE SortValues(_)
SortValues(t) ==
    IF t = <<>> THEN <<>>
    ELSE InsertAfterLE(SortValues(SubSeq(t, 1, Len(t) - 1)), t[Len(t)])

(***************************************************************************)
(* groupby("player_id"): the row positions of one player, in table order.  *)
(***************************************************************************)
RECURSIVE GroupIdx(_, _, _)
GroupIdx(t, p, i) ==
    IF i > Len(t) THEN <<>>
    ELSE (IF t[i].player_id = p THEN <<i>> ELSE <<>>) \o GroupIdx(t, p, i + 1)

\* No grouping: every row position of the table.
WholeTable(t, i) == [k \in 1..Len(t) |-> k]

OwnGroup(t, i) == GroupIdx(t, t[i].player_id, 1)

(***************************************************************************)
(* compute_rolling_load                                                    *)
(***************************************************************************)
\* Series.rolling(window=w, min_periods=mp).sum() at position j of one
\* group's load column: the last w positions, missing observations skipped,
\* missing when fewer than mp observations are in the window.
RollingSumAt(col, j, w, mp) ==
    LET lo  == Max(1, j - w + 1)
        obs == {k \in lo..j : ~IsNA(col[k])}
    IN IF Cardinality(obs) < mp THEN NA
       ELSE N(SumSet([k \in obs |-> col[k].v], obs))

\* A rolling sum that forgets the groupby: the window runs over the whole table.
RollingGroupWholeTable(t, i) == [k \in 1..Len(t) |-> k]

\* The groupby the rolling sum runs over.
RollingGroup(t, i) == OwnGroup(t, i)

RollingColumn(t, w, mp) ==
    [i \in 1..Len(t) |->
        LET g   == RollingGroup(t, i)
            col == [k \in 1..Len(g) |-> t[g[k]].internal_load]
            j   == CHOOSE k \in 1..Len(g) : g[k] = i
        IN RollingSumAt(col, j, w, mp)]

\* The returned table: the sorted copy with one internal_load_<w>d column per
\* window w of `windows`, kept in the field roll as w |-> column value.
compute_rolling_load(t, windows, mp) ==
    LET out == SortValues(t)
        ws  == {windows[n] : n \in 1..Len(windows)}
    IN [i \in 1..Len(out) |->
          SetColumn(out[i], "roll", [w \in ws |-> RollingColumn(out, w, mp)[i]])]

(***************************************************************************)
(* Specification of compute_rolling_load on bounded session tables         *)
(***************************************************************************)
MaxRollRows == 3
MaxWindow == 2
MaxMinPeriods == 2

PlayerIds == {1, 2}
RollDates == {1, 2}
LoadCells == {NA, N(300), N(480)}

RollRows == [player_id : PlayerIds, date : RollDates, internal_load : LoadCells]

\* The default windows=(7, 28) of compute_rolling_load.
DefaultWindows == <<7, 28>>

\* windows tuples: each single window, all small windows together, the default.
WindowTuples ==
    {<<w>> : w \in 1..MaxWindow} \cup {[n \in 1..MaxWindow |-> n]} \cup {DefaultWindows}

WindowSet(ws) == {ws[n] : n \in 1..Len(ws)}

\* pandas rejects min_periods > window, so only min_periods up to the smallest
\* window are inputs of a call that computes anything.
MinPeriodsFor(ws) == {m \in 0..MaxMinPeriods : \A w \in WindowSet(ws) : m <= w}

InitRolling ==
    /\ pc = "compute_rolling_load"
    /\ sessions \in SeqsUpTo(RollRows, MaxRollRows)
    /\ \E ws \in WindowTuples : \E mp \in MinPeriodsFor(ws) :
          args = [windows |-> ws, min_periods |-> mp]
    /\ players = <<>>
    /\ wellness = <<>>
    /\ daily = <<>>
    /\ ret = <<>>
    /\ raised = "none"
    /\ NoRun

ComputeRollingLoad ==
    /\ pc = "compute_rolling_load"
    /\ ret' = compute_rolling_load(sessions, args.windows, args.min_periods)
    /\ raised' = "none"
    /\ pc' = "returned"
    /\ UNCHANGED <<players, sessions, wellness, daily, args, locals, trace, files>>

NextRolling == ComputeRollingLoad

SpecRolling == InitRolling /\ [][NextRolling]_vars

\* Number of rows of table t that are x in the columns player_id, date, internal_load.
CountSession(t, x) ==
    Cardinality({i \in 1..Len(t) :
        /\ t[i].player_id = x.player_id
        /\ t[i].date = x.date
        /\ t[i].internal_load = x.internal_load})

\* The rows of player ret[r].player_id at or before position r of the result.
OwnRowsUpTo(r) == {i \in 1..r : ret[i].player_id = ret[r].player_id}

\* Of those, the at most w nearest to r.
TrailingWindow(r, w) ==
    {i \in OwnRowsUpTo(r) : Cardinality({j \in OwnRowsUpTo(r) : j >= i}) <= w}

\* C1: for every window w passed to compute_rolling_load and every row r of the
\* result, internal_load_<w>d is the sum of internal_load over the same player's
\* at most w most recent rows in ascending date order up to and including r, and
\* is missing when fewer than min_periods non-missing loads fall in that window;
\* the result holds the input's rows, each player's rows in ascending date order.
C1_RollingSumPerPlayer ==
    pc = "returned" =>
        /\ Len(ret) = Len(sessions)
        /\ \A x \in RollRows :
              CountSession(ret, x) = CountSession(sessions, x)
        /\ \A i, j \in 1..Len(ret) :
              (i < j /\ ret[i].player_id = ret[j].player_id) => ret[i].date <= ret[j].date
        /\ \A r \in 1..Len(ret) :
              /\ DOMAIN ret[r].roll = WindowSet(args.windows)
              /\ \A w \in WindowSet(args.windows) :
                    LET obs == {i \in TrailingWindow(r, w) : ~IsNA(ret[i].internal_load)}
                    IN ret[r].roll[w] =
                         IF Cardinality(obs) < args.min_periods THEN NA
                         ELSE N(SumSet([i \in obs |-> ret[i].internal_load.v], obs))

\* The scenario of the specification: one player, loads [300, 480], window 7
\* gives [300, 780]; with another player's row and a window that has slid.
C1_Witness ==
    /\ pc = "returned"
    /\ sessions = << [player_id |-> 1, date |-> 1, internal_load |-> N(300)],
                     [player_id |-> 1, date |-> 2, internal_load |-> N(480)] >>
    /\ args.windows = DefaultWindows
    /\ ret[1].roll[7] = N(300)
    /\ ret[2].roll[7] = N(780)

(***************************************************************************)
(* merge_daily                                                             *)
(*                                                                         *)
(* A merged row keeps every column of its session row; of the right-hand   *)
(* columns it takes readiness_score for the wellness and readiness         *)
(* columns, and player_name for the identity columns player_name, position *)
(* and status.  pandas.merge(how="left") returns, in the order of the left     *)
(* table, one row per pair of a left row and a right row with the same     *)
(* key, and one row with the right columns missing for a left row that     *)
(* has no such right row; validate= is checked before any row is joined.   *)
(***************************************************************************)
PlayerDate(r) == <<r.player_id, r.date>>

\* The merge key columns of a table, row by row.
PlayerDateKeys(t) == [i \in 1..Len(t) |-> PlayerDate(t[i])]

PlayerKeys(t) == [i \in 1..Len(t) |-> t[i].player_id]

IsUnique(keys) ==
    \A i, j \in 1..Len(keys) : keys[i] = keys[j] => i = j

\* The positions j.. of the right table whose key is k, in table order.
RECURSIVE MatchIdx(_, _, _)
MatchIdx(keys, k, j) ==
    IF j > Len(keys) THEN <<>>
    ELSE (IF keys[j] = k THEN <<j>> ELSE <<>>) \o MatchIdx(keys, k, j + 1)

\* A merge without validate=: no uniqueness check at all.
ValidateNothing(left, right) == TRUE

\* validate="one_to_one": the merge keys are unique in the left and in the right table.
ValidateOneToOne(left, right) ==
    IsUnique(PlayerDateKeys(left)) /\ IsUnique(PlayerDateKeys(right))

\* validate="many_to_one": the merge keys are unique in the right table.
ValidateManyToOne(left, right) == IsUnique(PlayerKeys(right))

\* validate="many_to_one" read as a foreign-key check: an unmatched left key raises.
ValidateForeignKey(left, right) ==
    /\ IsUnique(PlayerKeys(right))
    /\ \A i \in 1..Len(left) : \E j \in 1..Len(right) :
          right[j].player_id = left[i].player_id

\* The check of the second merge, of daily against the player reference table.
ValidatePlayers(left, right) == ValidateManyToOne(left, right)

WithWellness(srow, cell) == SetColumn(srow, "readiness_score", cell)

\* The output rows of one session row of the sessions/wellness merge.
SessionJoinRows(srow, w) ==
    LET m == MatchIdx(PlayerDateKeys(w), PlayerDate(srow), 1)
    IN IF m = <<>> THEN << WithWellness(srow, NA) >>
       ELSE [n \in 1..Len(m) |-> WithWellness(srow, w[m[n]].readiness_score)]

\* how="inner": a session row without a wellness entry is dropped.
SessionJoinRowsInner(srow, w) ==
    LET m == MatchIdx(PlayerDateKeys(w), PlayerDate(srow), 1)
    IN [n \in 1..Len(m) |-> WithWellness(srow, w[m[n]].readiness_score)]

\* how="left".
SessionRows(srow, w) == SessionJoinRows(srow, w)

RECURSIVE MergeSessionsWellness(_, _, _)
MergeSessionsWellness(s, w, i) ==
    IF i > Len(s) THEN <<>>
    ELSE SessionRows(s[i], w) \o MergeSessionsWellness(s, w, i + 1)

WithPlayer(drow, cell) == SetColumn(drow, "player_name", cell)

PlayerJoinRows(drow, p) ==
    LET m == MatchIdx(PlayerKeys(p), drow.player_id, 1)
    IN IF m = <<>> THEN << WithPlayer(drow, NA) >>
       ELSE [n \in 1..Len(m) |-> WithPlayer(drow, p[m[n]].player_name)]

RECURSIVE MergePlayers(_, _, _)
MergePlayers(d, p, i) ==
    IF i > Len(d) THEN <<>>
    ELSE PlayerJoinRows(d[i], p) \o MergePlayers(d, p, i + 1)

MergeFailed == [raised |-> "MergeError", table |-> <<>>]

merge_daily(p, s, w) ==
    IF ~ValidateOneToOne(s, w) THEN MergeFailed
    ELSE LET d == MergeSessionsWellness(s, w, 1)
         IN IF ~ValidatePlayers(d, p) THEN MergeFailed
            ELSE [raised |-> "none", table |-> SortValues(MergePlayers(d, p, 1))]

(***************************************************************************)
(* Specification of merge_daily on bounded tables.  Every input row has    *)
(* its own value in its non-key column, so a daily row shows which input   *)
(* rows it was joined from.                                                *)
(***************************************************************************)
MaxSessionRows == 2
MaxWellnessRows == 2
MaxPlayerRows == 2

MergeDates == {1, 2}

MergeKeys == [player_id : PlayerIds, date : MergeDates]

InitMerge ==
    /\ pc = "merge_daily"
    /\ \E ks \in SeqsUpTo(MergeKeys, MaxSessionRows) :
          sessions = [i \in 1..Len(ks) |->
                        [player_id |-> ks[i].player_id, date |-> ks[i].date,
                         session_type |-> N(i)]]
    /\ \E kw \in SeqsUpTo(MergeKeys, MaxWellnessRows) :
          wellness = [i \in 1..Len(kw) |->
                        [player_id |-> kw[i].player_id, date |-> kw[i].date,
                         readiness_score |-> N(i)]]
    /\ \E kp \in SeqsUpTo(PlayerIds, MaxPlayerRows) :
          players = [i \in 1..Len(kp) |-> [player_id |-> kp[i], player_name |-> N(i)]]
    /\ daily = <<>>
    /\ args = <<>>
    /\ ret = <<>>
    /\ raised = "none"
    /\ NoRun

MergeDaily ==
    /\ pc = "merge_daily"
    /\ LET m == merge_daily(players, sessions, wellness)
       IN /\ ret' = m.table
          /\ raised' = m.raised
    /\ pc' = "returned"
    /\ UNCHANGED <<players, sessions, wellness, daily, args, locals, trace, files>>

NextMerge == MergeDaily

SpecMerge == InitMerge /\ [][NextMerge]_vars

HasDuplicate(keys) ==
    \E i, j \in 1..Len(keys) : i < j /\ keys[i] = keys[j]

SomeDuplicateKey ==
    \/ HasDuplicate(PlayerDateKeys(wellness))
    \/ HasDuplicate(PlayerDateKeys(sessions))
    \/ HasDuplicate(PlayerKeys(players))

\* C2: merge_daily fails with a merge-integrity error and returns no table
\* whenever two wellness rows share a (player_id, date), two session rows share
\* a (player_id, date), or two player reference rows share a player_id.
C2_DuplicateKeyRaises ==
    (pc = "returned" /\ SomeDuplicateKey) => (raised = "MergeError" /\ ret = <<>>)

\* A duplicated player_id in the reference table, with unique session and
\* wellness keys, has made the call fail.
C2_Witness ==
    /\ pc = "returned"
    /\ raised = "MergeError"
    /\ HasDuplicate(PlayerKeys(players))
    /\ ~HasDuplicate(PlayerDateKeys(wellness))
    /\ ~HasDuplicate(PlayerDateKeys(sessions))
    /\ Len(sessions) > 0

\* C3: when merge_daily succeeds its output has exactly one row per session row;
\* a row whose (player_id, date) has a wellness entry carries that entry's
\* fields, a row without one has them missing, and a (player_id, date) found
\* only in the wellness table produces no row.
C3_LeftJoinOnSessions ==
    (pc = "returned" /\ raised = "none") =>
        /\ Len(ret) = Len(sessions)
        /\ \A i \in 1..Len(sessions) :
              Cardinality({r \in 1..Len(ret) :
                              /\ ret[r].session_type = sessions[i].session_type
                              /\ PlayerDate(ret[r]) = PlayerDate(sessions[i])}) = 1
        /\ \A r \in 1..Len(ret) :
              /\ \A j \in 1..Len(wellness) :
                    PlayerDate(wellness[j]) = PlayerDate(ret[r])
                        => ret[r].readiness_score = wellness[j].readiness_score
              /\ (\A j \in 1..Len(wellness) : PlayerDate(wellness[j]) # PlayerDate(ret[r]))
                        => ret[r].readiness_score = NA
        /\ \A j \in 1..Len(wellness) :
              (\A i \in 1..Len(sessions) : PlayerDate(sessions[i]) # PlayerDate(wellness[j]))
                  => \A r \in 1..Len(ret) : PlayerDate(ret[r]) # PlayerDate(wellness[j])

\* A successful merge with a matched session row, an unmatched session row and
\* a wellness entry that has no session.
C3_Witness ==
    /\ pc = "returned"
    /\ raised = "none"
    /\ Len(ret) = 2
    /\ \E r \in 1..Len(ret) : ret[r].readiness_score = NA
    /\ \E r \in 1..Len(ret) : ret[r].readiness_score # NA
    /\ \E j \in 1..Len(wellness) :
          \A i \in 1..Len(sessions) : PlayerDate(sessions[i]) # PlayerDate(wellness[j])

UnmatchedPlayer ==
    \E i \in 1..Len(sessions) :
        \A j \in 1..Len(players) : players[j].player_id # sessions[i].player_id

\* C4 as claimed: merge_daily raises whenever some session row has a player_id
\* that matches no row of the player reference table.
C4_UnmatchedPlayerRaises ==
    (pc = "returned" /\ UnmatchedPlayer) => raised # "none"

\* C4 amended: an unmatched player_id is no error.  merge_daily raises exactly
\* when a key is duplicated; otherwise every session row whose player_id matches
\* no reference row is kept with its identity fields missing, and every other
\* row carries the identity fields of its one reference row.
C4_UnmatchedPlayerKept ==
    pc = "returned" =>
        /\ (raised = "MergeError") <=> SomeDuplicateKey
        /\ raised \in {"none", "MergeError"}
        /\ raised = "none" =>
              /\ Len(ret) = Len(sessions)
              /\ \A r \in 1..Len(ret) :
                    /\ \A j \in 1..Len(players) :
                          players[j].player_id = ret[r].player_id
                              => ret[r].player_name = players[j].player_name
                    /\ (\A j \in 1..Len(players) : players[j].player_id # ret[r].player_id)
                              => ret[r].player_name = NA

\* A successful merge from a session row of a player absent from the reference
\* table, next to a row of a player that is in it.
C4_Witness ==
    /\ pc = "returned"
    /\ raised = "none"
    /\ UnmatchedPlayer
    /\ \E r \in 1..Len(ret) : ret[r].player_name = NA
    /\ \E r \in 1..Len(ret) : ret[r].player_name # NA

\* The rows of a table in the opposite order.
Reversed(t) == [i \in 1..Len(t) |-> t[Len(t) + 1 - i]]

Reorderings(t) == {t, Reversed(t)}

StrictlyAscending(t) ==
    \A r \in 1..(Len(t) - 1) :
        \/ t[r].player_id < t[r + 1].player_id
        \/ t[r].player_id = t[r + 1].player_id /\ t[r].date < t[r + 1].date

\* C12: the table merge_daily returns is ordered ascending by (player_id, date),
\* and the outcome does not depend on the row order of the inputs: the same
\* player, session and wellness rows given in another order raise the same way
\* or give the same table, row for row.
C12_CanonicalOrder ==
    pc = "returned" =>
        /\ StrictlyAscending(ret)
        /\ \A p \in Reorderings(players), s \in Reorderings(sessions),
              w \in Reorderings(wellness) :
              LET m == merge_daily(p, s, w)
              IN m.raised = raised /\ m.table = ret

\* A successful merge of two session rows given in descending key order: the
\* second input row has become the first output row.
C12_Witness ==
    /\ pc = "returned"
    /\ raised = "none"
    /\ Len(sessions) = 2
    /\ Len(ret) = 2
    /\ ~KeyLE(sessions[1], sessions[2])
    /\ ret[1].session_type = sessions[2].session_type
    /\ ret[2].session_type = sessions[1].session_type
    /\ Len(wellness) = 2
    /\ ~KeyLE(wellness[1], wellness[2])

(***************************************************************************)
(* compute_readiness_score                                                 *)
(***************************************************************************)
\* Float addition and subtraction of two columns: missing if either is missing.
Plus(a, b) == IF IsNA(a) \/ IsNA(b) THEN NA ELSE N(a.v + b.v)

Minus(a, b) == IF IsNA(a) \/ IsNA(b) THEN NA ELSE N(a.v - b.v)

ReadinessRaw(r) ==
    Minus(Minus(Minus(Plus(r.sleep_quality, r.mood), r.soreness), r.fatigue), r.stress)

\* s * 0.0: zero for a number, missing for a missing value.
TimesZero(c) == IF IsNA(c) THEN NA ELSE N(0)

\* The divisor of the sample standard deviation (pandas' default ddof=1).
StdDivisorSample(n) == n - 1

\* s.std(ddof=0): the squared deviations are divided by n - ddof = n.
StdDivisor(n) == n

\* zscore(s) of one player's readiness_raw column s.  With n, S and Q the count,
\* sum and sum of squares of the non-missing values, mean and std skip missing
\* values: mu = S/n and sd^2 = (n*Q - S^2) / (n * m) with the divisor m of the
\* standard deviation; sd is NaN when m <= 0.  (x - mu) / sd = (n*x - S) * m /
\* sqrt(n * (n*Q - S^2) * m) is kept exactly as v / sqrt(d).
zscore(s) ==
    LET obs == {j \in 1..Len(s) : ~IsNA(s[j])}
        n   == Cardinality(obs)
        S   == SumSet([j \in obs |-> s[j].v], obs)
        Q   == SumSet([j \in obs |-> s[j].v * s[j].v], obs)
        m   == StdDivisor(n)
        sdIsNaN  == m <= 0
        sdIsZero == n * Q - S * S = 0
    IN IF sdIsNaN \/ sdIsZero
       THEN [j \in 1..Len(s) |-> TimesZero(s[j])]
       ELSE [j \in 1..Len(s) |->
               IF IsNA(s[j]) THEN NA
               ELSE [k |-> "num",
                     v |-> (n * s[j].v - S) * m,
                     d |-> n * (n * Q - S * S) * m]]

\* groupby("player_id")["readiness_raw"].transform(zscore): each row gets the
\* value zscore gives it within its own player's rows; row order is kept.
TransformZscore(t) ==
    [i \in 1..Len(t) |->
        LET g == OwnGroup(t, i)
            s == [n \in 1..Len(g) |-> t[g[n]].readiness_raw]
            j == CHOOSE n \in 1..Len(g) : g[n] = i
        IN zscore(s)[j]]

WithReadiness(r, raw, score) ==
    SetColumn(SetColumn(r, "readiness_raw", raw), "readiness_score", score)

compute_readiness_score(w, method, standardize_within_player) ==
    IF method # "simple" THEN [raised |-> "ValueError:method", table |-> <<>>]
    ELSE LET out == [i \in 1..Len(w) |-> WithReadiness(w[i], ReadinessRaw(w[i]), NA)]
             z   == TransformZscore(out)
         IN [raised |-> "none",
             table  |-> [i \in 1..Len(w) |->
                           WithReadiness(w[i], out[i].readiness_raw,
                               IF standardize_within_player THEN z[i]
                               ELSE out[i].readiness_raw)]]

(***************************************************************************)
(* Specification of compute_readiness_score on bounded wellness tables.    *)
(* The function reads no date, so the rows carry none.                     *)
(***************************************************************************)
MaxReadinessRows == 3

ReadinessRows ==
    [player_id     : PlayerIds,
     sleep_quality : {NA, N(3), N(5)},
     mood          : {N(5), N(6)},
     soreness      : {N(1)},
     fatigue       : {N(1)},
     stress        : {N(1)}]

InitReadiness ==
    /\ pc = "compute_readiness_score"
    /\ wellness \in SeqsUpTo(ReadinessRows, MaxReadinessRows)
    /\ \E m \in {"simple", "weighted"} : \E z \in BOOLEAN :
          args = [method |-> m, standardize_within_player |-> z]
    /\ players = <<>>
    /\ sessions = <<>>
    /\ daily = <<>>
    /\ ret = <<>>
    /\ raised = "none"
    /\ NoRun

ComputeReadinessScore ==
    /\ pc = "compute_readiness_score"
    /\ LET c == compute_readiness_score(wellness, args.method,
                                        args.standardize_within_player)
       IN /\ ret' = c.table
          /\ raised' = c.raised
    /\ pc' = "returned"
    /\ UNCHANGED <<players, sessions, wellness, daily, args, locals, trace, files>>

NextReadiness == ComputeReadinessScore

SpecReadiness == InitReadiness /\ [][NextReadiness]_vars

Standardized ==
    /\ pc = "returned"
    /\ raised = "none"
    /\ args.standardize_within_player

\* The rows of player p in the result, and those with a readiness_raw.
RowsOf(p) == {r \in 1..Len(ret) : ret[r].player_id = p}

ObservedOf(p) == {r \in RowsOf(p) : ~IsNA(ret[r].readiness_raw)}

RawValuesOf(p) == {ret[r].readiness_raw.v : r \in ObservedOf(p)}

\* C5: with standardization, every row of a player whose readiness_raw standard
\* deviation is zero or undefined (at most one distinct non-missing value) has
\* readiness_score exactly zero, rows with a missing readiness_raw included.
C5_ZeroVarianceAllZero ==
    Standardized =>
        \A p \in PlayerIds :
            Cardinality(RawValuesOf(p)) <= 1 =>
                \A r \in RowsOf(p) : ret[r].readiness_score = N(0)

\* Two exact numbers v / sqrt(d) are the same number.
SameNumber(a, b) ==
    /\ a.k = "num" /\ b.k = "num"
    /\ (a.v >= 0) <=> (b.v >= 0)
    /\ a.v * a.v * b.d = b.v * b.v * a.d

\* C6: with standardization, for every player with at least 2 distinct
\* readiness_raw values, readiness_score is (readiness_raw - mean) / population
\* standard deviation, mean and deviation taken over that player's own
\* non-missing rows: over the player's rows the scores v / sqrt(d) share one d,
\* sum to 0 (mean 0) and their squares sum to the number of rows (deviation 1).
C6_PerPlayerZScore ==
    Standardized =>
        \A p \in PlayerIds :
            Cardinality(RawValuesOf(p)) >= 2 =>
                LET rows == ObservedOf(p)
                    n    == Cardinality(rows)
                    sum  == SumSet([r \in rows |-> ret[r].readiness_raw.v], rows)
                    sq   == SumSet([r \in rows |->
                                ret[r].readiness_raw.v * ret[r].readiness_raw.v], rows)
                IN /\ \A r \in RowsOf(p) \ rows : IsNA(ret[r].readiness_score)
                   /\ \A r \in rows :
                         SameNumber(ret[r].readiness_score,
                                    [k |-> "num",
                                     v |-> n * ret[r].readiness_raw.v - sum,
                                     d |-> n * sq - sum * sum])
                   /\ \A r, q \in rows : ret[r].readiness_score.d = ret[q].readiness_score.d
                   /\ SumSet([r \in rows |-> ret[r].readiness_score.v], rows) = 0
                   /\ \A r \in rows :
                         SumSet([q \in rows |-> ret[q].readiness_score.v
                                                  * ret[q].readiness_score.v], rows)
                            = n * ret[r].readiness_score.d

\* A standardized player with two distinct readiness_raw values, between whose
\* rows lies a row of the other player with a third value.
C6_Witness ==
    /\ Standardized
    /\ Len(ret) = 3
    /\ ret[1].player_id = 1 /\ ret[2].player_id = 2 /\ ret[3].player_id = 1
    /\ ret[1].readiness_raw = N(5)
    /\ ret[2].readiness_raw = N(8)
    /\ ret[3].readiness_raw = N(7)
    /\ ret[1].readiness_score.v < 0
    /\ ret[3].readiness_score.v > 0

(***************************************************************************)
(* add_simple_flags                                                        *)
(***************************************************************************)
Inf(sign) == [k |-> "inf", v |-> sign, d |-> 1]

\* Float comparison cell > tn/td (td > 0): False for a missing value.
GreaterThan(c, tn, td) ==
    LET a == c.v * td
    IN CASE c.k = "na"  -> FALSE
         [] c.k = "inf" -> c.v > 0
         [] OTHER ->
              IF a > 0 /\ tn <= 0 THEN TRUE
              ELSE IF a <= 0 /\ tn >= 0 THEN FALSE
              ELSE IF a > 0 THEN a * a > tn * tn * c.d
              ELSE a * a < tn * tn * c.d

\* Float comparison cell <= tn/td (td > 0): False for a missing value.
LessOrEqual(c, tn, td) ==
    LET a == c.v * td
    IN CASE c.k = "na"  -> FALSE
         [] c.k = "inf" -> c.v < 0
         [] OTHER ->
              IF a < 0 /\ tn >= 0 THEN TRUE
              ELSE IF a >= 0 /\ tn < 0 THEN FALSE
              ELSE IF a >= 0 THEN a * a <= tn * tn * c.d
              ELSE a * a >= tn * tn * c.d

\* Float comparison cell < tn/td (td > 0): False for a missing value.
LessThan(c, tn, td) ==
    LET a == c.v * td
    IN CASE c.k = "na"  -> FALSE
         [] c.k = "inf" -> c.v < 0
         [] OTHER ->
              IF a < 0 /\ tn >= 0 THEN TRUE
              ELSE IF a >= 0 /\ tn <= 0 THEN FALSE
              ELSE IF a >= 0 THEN a * a < tn * tn * c.d
              ELSE a * a > tn * tn * c.d

\* load_spike_pct = 0.25 = LoadSpikeNum / LoadSpikeDen
LoadSpikeNum == 1
LoadSpikeDen == 4

\* readiness_z_thresh = -1.0
ReadinessZThresh == -1

\* cur / prev - 1 in float arithmetic, for integer loads: x/0 is an infinity,
\* 0/0 is NaN.
PctOf(cur, prev) ==
    IF IsNA(cur) \/ IsNA(prev) THEN NA
    ELSE IF prev.v = 0
         THEN (IF cur.v = 0 THEN NA ELSE Inf(IF cur.v > 0 THEN 1 ELSE -1))
         ELSE [k |-> "num",
               v |-> IF prev.v > 0 THEN cur.v - prev.v ELSE prev.v - cur.v,
               d |-> prev.v * prev.v]

\* GroupBy.ffill() of one group's column: a missing value takes the last value
\* before it in the group, if there is one.
RECURSIVE FFill(_)
FFill(col) ==
    IF col = <<>> THEN <<>>
    ELSE LET head == FFill(SubSeq(col, 1, Len(col) - 1))
             last == col[Len(col)]
         IN Append(head, IF IsNA(last) /\ head # <<>> THEN head[Len(head)] ELSE last)

\* SeriesGroupBy.pct_change() of one group's column.  pandas before 3.0 pads
\* missing values first (fill_method="ffill"); pandas 3.0 does not.
GroupPctChange(col, pads) ==
    LET filled == IF pads THEN FFill(col) ELSE col
    IN [j \in 1..Len(col) |-> IF j = 1 THEN NA ELSE PctOf(filled[j], filled[j - 1])]

\* A percent change that forgets the groupby: each row against the row above it.
PctGroupWholeTable(t, i) == [k \in 1..Len(t) |-> k]

\* out.groupby("player_id")[load_col]
PctGroup(t, i) == OwnGroup(t, i)

LoadPctChange(t, pads) ==
    [i \in 1..Len(t) |->
        LET g   == PctGroup(t, i)
            col == [n \in 1..Len(g) |-> t[g[n]].internal_load_7d]
            j   == CHOOSE n \in 1..Len(g) : g[n] = i
        IN GroupPctChange(col, pads)[j]]

add_simple_flags(d, pads) ==
    LET out == SortValues(d)
        pct == LoadPctChange(out, pads)
    IN [i \in 1..Len(out) |->
          SetColumn(
            SetColumn(
              SetColumn(out[i], "load_pct_change", pct[i]),
              "flag_load_spike", GreaterThan(pct[i], LoadSpikeNum, LoadSpikeDen)),
            "flag_low_readiness", LessThan(out[i].readiness_score, ReadinessZThresh, 1))]

(***************************************************************************)
(* Specification of add_simple_flags on bounded daily tables.  Whether      *)
(* pct_change pads missing values depends on the installed pandas, which    *)
(* the repository does not pin: both behaviours are inputs.                 *)
(***************************************************************************)
MaxFlagRows == 3

FlagDates == {1, 2}

FlagLoadCells == {NA, N(0), N(100), N(125), N(126)}

FlagRows ==
    [player_id        : PlayerIds,
     date             : FlagDates,
     internal_load_7d : FlagLoadCells,
     readiness_score  : {NA}]

InitFlags ==
    /\ pc = "add_simple_flags"
    /\ daily \in SeqsUpTo(FlagRows, MaxFlagRows)
    /\ \E b \in BOOLEAN : args = [pct_change_pads |-> b]
    /\ players = <<>>
    /\ sessions = <<>>
    /\ wellness = <<>>
    /\ ret = <<>>
    /\ raised = "none"
    /\ NoRun

AddSimpleFlags ==
    /\ pc = "add_simple_flags"
    /\ ret' = add_simple_flags(daily, args.pct_change_pads)
    /\ raised' = "none"
    /\ pc' = "returned"
    /\ UNCHANGED <<players, sessions, wellness, daily, args, locals, trace, files>>

NextFlags == AddSimpleFlags

SpecFlags == InitFlags /\ [][NextFlags]_vars

FirstRowOfPlayer(r) == \A i \in 1..(r - 1) : ret[i].player_id # ret[r].player_id

\* load_pct_change of row r is a number (an infinity included) above 1/4.
PctDefinedAndAboveQuarter(r) ==
    LET c == ret[r].load_pct_change
    IN \/ c.k = "inf" /\ c.v > 0
       \/ c.k = "num" /\ c.v > 0 /\ 16 * c.v * c.v > c.d

\* C7: after add_simple_flags, flag_load_spike of every row is a boolean, true
\* if and only if load_pct_change is defined and strictly greater than 0.25,
\* false when load_pct_change is undefined; and load_pct_change is undefined on
\* the first row of every player.
C7_LoadSpikeFlag ==
    pc = "returned" =>
        /\ Len(ret) = Len(daily)
        /\ \A r \in 1..Len(ret) :
              /\ ret[r].flag_load_spike \in BOOLEAN
              /\ ret[r].flag_load_spike <=> PctDefinedAndAboveQuarter(r)
              /\ IsNA(ret[r].load_pct_change) => ret[r].flag_load_spike = FALSE
              /\ FirstRowOfPlayer(r) => IsNA(ret[r].load_pct_change)
              /\ (/\ r > 1
                  /\ ret[r - 1].player_id = ret[r].player_id
                  /\ ~IsNA(ret[r].internal_load_7d)
                  /\ ~IsNA(ret[r - 1].internal_load_7d)
                  /\ ret[r - 1].internal_load_7d.v > 0)
                    => (ret[r].flag_load_spike <=>
                          4 * (ret[r].internal_load_7d.v - ret[r - 1].internal_load_7d.v)
                              > ret[r - 1].internal_load_7d.v)

\* A spike within one player (100 -> 126), and the first row of the second
\* player, right after a row of the first player, unflagged with an undefined
\* change.
C7_Witness ==
    /\ pc = "returned"
    /\ Len(ret) = 3
    /\ ret[1].player_id = 1 /\ ret[2].player_id = 1 /\ ret[3].player_id = 2
    /\ ret[1].internal_load_7d = N(100)
    /\ ret[2].internal_load_7d = N(126)
    /\ ret[2].flag_load_spike
    /\ ret[3].internal_load_7d = N(126)
    /\ IsNA(ret[3].load_pct_change)
    /\ ~ret[3].flag_load_spike

(***************************************************************************)
(* Specification of add_simple_flags on daily tables whose readiness_score *)
(* is missing, below, at and above the threshold; a score is a z-score     *)
(* v / sqrt(d), so -1 is also met as -2 / sqrt(4).                         *)
(***************************************************************************)
MaxLowReadinessRows == 3

ReadinessScoreCells ==
    {NA, N(-2), N(-1), N(0), N(1),
     [k |-> "num", v |-> -2, d |-> 4],
     [k |-> "num", v |-> -3, d |-> 2],
     [k |-> "num", v |-> -1, d |-> 2]}

LowReadinessRows ==
    [player_id        : PlayerIds,
     date             : {1},
     internal_load_7d : {N(100)},
     readiness_score  : ReadinessScoreCells]

InitLowReadiness ==
    /\ pc = "add_simple_flags"
    /\ daily \in SeqsUpTo(LowReadinessRows, MaxLowReadinessRows)
    /\ \E b \in BOOLEAN : args = [pct_change_pads |-> b]
    /\ players = <<>>
    /\ sessions = <<>>
    /\ wellness = <<>>
    /\ ret = <<>>
    /\ raised = "none"
    /\ NoRun

NextLowReadiness == AddSimpleFlags

SpecLowReadiness == InitLowReadiness /\ [][NextLowReadiness]_vars

\* The score c is a number strictly below -1: v / sqrt(d) < -1.
PresentAndBelowMinusOne(c) ==
    c.k = "num" /\ c.v < 0 /\ c.v * c.v > c.d

\* C17: after add_simple_flags, flag_low_readiness of every row is a boolean,
\* true if and only if readiness_score is present and strictly below the
\* threshold -1.0: false when the score equals the threshold, and false, not
\* missing, when the score is missing.
C17_LowReadinessFlag ==
    pc = "returned" =>
        /\ Len(ret) = Len(daily)
        /\ \A r \in 1..Len(ret) :
              /\ ret[r].flag_low_readiness \in BOOLEAN
              /\ ret[r].flag_low_readiness <=> PresentAndBelowMinusOne(ret[r].readiness_score)
              /\ IsNA(ret[r].readiness_score) => ret[r].flag_low_readiness = FALSE
              /\ ret[r].readiness_score.v * ret[r].readiness_score.v = ret[r].readiness_score.d
                    => ret[r].flag_low_readiness = FALSE
        /\ \A i \in 1..Len(daily) : \E r \in 1..Len(ret) :
              /\ ret[r].player_id = daily[i].player_id
              /\ ret[r].readiness_score = daily[i].readiness_score

\* One player with a missing score, a score equal to the threshold and a score
\* below it: only the last is flagged.
C17_Witness ==
    /\ pc = "returned"
    /\ Len(ret) = 3
    /\ ret[1].readiness_score = NA   /\ ~ret[1].flag_low_readiness
    /\ ret[2].readiness_score = N(-1) /\ ~ret[2].flag_low_readiness
    /\ ret[3].readiness_score = N(-2) /\ ret[3].flag_low_readiness

(***************************************************************************)
(* validate_ranges                                                         *)
(***************************************************************************)
\* (col < lo).any(): comparisons with a missing value are False.
AnyBelow(t, c, lo) == \E i \in 1..Len(t) : ~IsNA(t[i][c]) /\ t[i][c].v < lo

AnyAbove(t, c, hi) == \E i \in 1..Len(t) : ~IsNA(t[i][c]) /\ t[i][c].v > hi

\* A comparison written so that a missing value counts as a violation.
AnyOutsideOrMissing(t, c, lo, hi) ==
    \E i \in 1..Len(t) : IsNA(t[i][c]) \/ t[i][c].v < lo \/ t[i][c].v > hi

\* ((col < lo) | (col > hi)).any()
AnyOutside(t, c, lo, hi) == AnyBelow(t, c, lo) \/ AnyAbove(t, c, hi)

\* non_missing = col.dropna(); ((non_missing < lo) | (non_missing > hi)).any()
AnyOutsideDropna(t, c, lo, hi) ==
    LET kept == {i \in 1..Len(t) : ~IsNA(t[i][c])}
    IN \E i \in kept : t[i][c].v < lo \/ t[i][c].v > hi

\* The checks in the order of the code; the result names the first column
\* whose check raises, or is "none".
validate_ranges(s, w) ==
    IF AnyBelow(s, "minutes", 0) THEN "RangeError:minutes"
    ELSE IF AnyOutside(s, "sRPE", 0, 10) THEN "RangeError:sRPE"
    ELSE IF AnyBelow(s, "external_load", 0) THEN "RangeError:external_load"
    ELSE IF AnyBelow(s, "total_accels", 0) THEN "RangeError:total_accels"
    ELSE IF AnyBelow(s, "jump_count", 0) THEN "RangeError:jump_count"
    ELSE IF AnyOutside(w, "sleep_quality", 1, 5) /\ AnyOutsideDropna(w, "sleep_quality", 1, 5)
         THEN "RangeError:sleep_quality"
    ELSE IF AnyOutsideDropna(w, "soreness", 1, 10) THEN "RangeError:soreness"
    ELSE IF AnyOutsideDropna(w, "fatigue", 1, 10) THEN "RangeError:fatigue"
    ELSE IF AnyOutsideDropna(w, "stress", 1, 10) THEN "RangeError:stress"
    ELSE IF AnyOutsideDropna(w, "mood", 1, 10) THEN "RangeError:mood"
    ELSE IF AnyOutsideDropna(w, "sleep_hours", 0, 24) THEN "RangeError:sleep_hours"
    ELSE "none"

(***************************************************************************)
(* Specification of validate_ranges: two cleaned session rows and two      *)
(* cleaned wellness rows, all in range, in which up to MaxOddCells cells    *)
(* are replaced by a missing value, a bound of the column or the value      *)
(* next to a bound outside the range.                                       *)
(***************************************************************************)
MaxOddCells == 2

ValidSessionRow ==
    [player_id |-> 1, date |-> 1, minutes |-> N(60), sRPE |-> N(5),
     external_load |-> N(100), total_accels |-> N(20), jump_count |-> N(20)]

ValidWellnessRow ==
    [player_id |-> 1, date |-> 1, sleep_hours |-> N(8), sleep_quality |-> N(3),
     soreness |-> N(5), fatigue |-> N(5), stress |-> N(5), mood |-> N(5)]

NonNegativeCells == {NA, N(-1), N(0)}

OddSessionCells ==
    [minutes |-> NonNegativeCells,
     sRPE |-> {NA, N(-1), N(0), N(10), N(11)},
     external_load |-> NonNegativeCells,
     total_accels |-> NonNegativeCells,
     jump_count |-> NonNegativeCells]

OneToTenCells == {NA, N(0), N(1), N(10), N(11)}

OddWellnessCells ==
    [sleep_hours |-> {NA, N(-1), N(0), N(24), N(25)},
     sleep_quality |-> {NA, N(0), N(1), N(5), N(6)},
     soreness |-> OneToTenCells,
     fatigue |-> OneToTenCells,
     stress |-> OneToTenCells,
     mood |-> OneToTenCells]

ValidSessions == << ValidSessionRow, [ValidSessionRow EXCEPT !.date = 2] >>

ValidWellness == << ValidWellnessRow, [ValidWellnessRow EXCEPT !.date = 2] >>

OddCells ==
    UNION ( {{[tab |-> "sessions", row |-> r, col |-> c, val |-> x] :
                 r \in DOMAIN ValidSessions, x \in OddSessionCells[c]} :
             c \in DOMAIN OddSessionCells}
            \cup
            {{[tab |-> "wellness", row |-> r, col |-> c, val |-> x] :
                 r \in DOMAIN ValidWellness, x \in OddWellnessCells[c]} :
             c \in DOMAIN OddWellnessCells} )

\* Table `name` with the cells of es that belong to it replaced, in order.
RECURSIVE WithOddCells(_, _, _)
WithOddCells(name, t, es) ==
    IF es = <<>> THEN t
    ELSE LET e == es[1]
             u == IF e.tab = name
                  THEN [t EXCEPT ![e.row] = [@ EXCEPT ![e.col] = e.val]]
                  ELSE t
         IN WithOddCells(name, u, Tail(es))

InitValidate ==
    /\ pc = "validate_ranges"
    /\ \E es \in SeqsUpTo(OddCells, MaxOddCells) :
          /\ sessions = WithOddCells("sessions", ValidSessions, es)
          /\ wellness = WithOddCells("wellness", ValidWellness, es)
    /\ players = <<>>
    /\ daily = <<>>
    /\ args = <<>>
    /\ ret = <<>>
    /\ raised = "none"
    /\ NoRun

ValidateRanges ==
    /\ pc = "validate_ranges"
    /\ raised' = validate_ranges(sessions, wellness)
    /\ pc' = "returned"
    /\ UNCHANGED <<players, sessions, wellness, daily, args, ret, locals, trace, files>>

NextValidate == ValidateRanges

SpecValidate == InitValidate /\ [][NextValidate]_vars

\* Some non-missing value of column c of table t is below lo / above hi.
SomeBelow(t, c, lo) ==
    \E i \in 1..Len(t) : t[i][c].k = "num" /\ t[i][c].v < lo

SomeAbove(t, c, hi) ==
    \E i \in 1..Len(t) : t[i][c].k = "num" /\ t[i][c].v > hi

DomainBoundBroken ==
    \/ \E c \in {"minutes", "external_load", "total_accels", "jump_count"} :
          SomeBelow(sessions, c, 0)
    \/ SomeBelow(sessions, "sRPE", 0) \/ SomeAbove(sessions, "sRPE", 10)
    \/ SomeBelow(wellness, "sleep_hours", 0) \/ SomeAbove(wellness, "sleep_hours", 24)
    \/ SomeBelow(wellness, "sleep_quality", 1) \/ SomeAbove(wellness, "sleep_quality", 5)
    \/ \E c \in {"soreness", "fatigue", "stress", "mood"} :
          SomeBelow(wellness, c, 1) \/ SomeAbove(wellness, c, 10)

RangeErrors ==
    {"RangeError:minutes", "RangeError:sRPE", "RangeError:external_load",
     "RangeError:total_accels", "RangeError:jump_count", "RangeError:sleep_quality",
     "RangeError:soreness", "RangeError:fatigue", "RangeError:stress",
     "RangeError:mood", "RangeError:sleep_hours"}

\* C8: validate_ranges raises RangeError if and only if some non-missing value
\* lies outside its domain bound (so a missing value never causes one); without
\* a violation it returns without error, and in either case it changes neither
\* table.
C8_RangeErrorIffOutOfBounds ==
    /\ [](pc = "returned" =>
            /\ raised \in RangeErrors \cup {"none"}
            /\ (raised \in RangeErrors) <=> DomainBoundBroken)
    /\ [][pc' = "returned" => (sessions' = sessions /\ wellness' = wellness)]_vars

\* validate_ranges has returned without error on tables that hold missing
\* values and values on a bound.
C8_Witness ==
    /\ pc = "returned"
    /\ raised = "none"
    /\ IsNA(wellness[1].mood)
    /\ sessions[2].sRPE = N(10)

(***************************************************************************)
(* prep_sessions and prep_wellness                                         *)
(*                                                                         *)
(* In a raw table the date cell is N(d) for a string that parses to day d, *)
(* Text for a string that does not parse, NA for an empty cell.            *)
(***************************************************************************)
\* pd.to_datetime(col, errors="coerce"): NaT for whatever is no date.
ToDatetime(c) == IF c.k = "num" THEN c ELSE NA

\* pd.to_numeric(col, errors="coerce"): NaN for whatever is no number.
ToNumeric(c) == IF c.k = "num" THEN c ELSE NA

\* out[col].isna().any() after to_datetime: _to_datetime raises ValueError.
ToDatetimeRaises(t) == \E i \in 1..Len(t) : IsNA(ToDatetime(t[i].date))

\* A product in which a missing operand counts as zero.
TimesNaAsZero(a, b) == IF IsNA(a) \/ IsNA(b) THEN N(0) ELSE N(a.v * b.v)

\* Float product of two columns: missing if either operand is missing.
Times(a, b) == IF IsNA(a) \/ IsNA(b) THEN NA ELSE N(a.v * b.v)

CleanSessionRow(r) ==
    LET minutes == ToNumeric(r.minutes)
        sRPE    == ToNumeric(r.sRPE)
    IN [player_id     |-> r.player_id,
        date          |-> ToDatetime(r.date).v,
        session_type  |-> r.session_type,
        minutes       |-> minutes,
        sRPE          |-> sRPE,
        external_load |-> ToNumeric(r.external_load),
        total_accels  |-> ToNumeric(r.total_accels),
        jump_count    |-> ToNumeric(r.jump_count),
        internal_load |-> Times(minutes, sRPE)]

prep_sessions(t) ==
    IF ToDatetimeRaises(t) THEN [raised |-> "ValueError:date", table |-> <<>>]
    ELSE [raised |-> "none",
          table  |-> SortValues([i \in 1..Len(t) |-> CleanSessionRow(t[i])])]

WellnessNumCols ==
    {"sleep_hours", "sleep_quality", "soreness", "fatigue", "stress", "mood"}

CleanWellnessRow(r) ==
    [player_id     |-> r.player_id,
     date          |-> ToDatetime(r.date).v,
     sleep_hours   |-> ToNumeric(r.sleep_hours),
     sleep_quality |-> ToNumeric(r.sleep_quality),
     soreness      |-> ToNumeric(r.soreness),
     fatigue       |-> ToNumeric(r.fatigue),
     stress        |-> ToNumeric(r.stress),
     mood          |-> ToNumeric(r.mood)]

\* GroupBy.bfill() of one group's column: a missing value takes the first value
\* after it in the group, if there is one.
RECURSIVE BFill(_)
BFill(col) ==
    IF col = <<>> THEN <<>>
    ELSE LET tail  == BFill(Tail(col))
             first == col[1]
         IN <<IF IsNA(first) /\ tail # <<>> THEN tail[1] ELSE first>> \o tail

\* out[num_cols] = out.groupby("player_id")[num_cols].ffill() / .bfill()
FillWithinPlayer(t, fill_method) ==
    [i \in 1..Len(t) |->
        LET g == OwnGroup(t, i)
            j == CHOOSE n \in 1..Len(g) : g[n] = i
        IN [c \in DOMAIN t[i] |->
              IF c \in WellnessNumCols
              THEN LET col == [n \in 1..Len(g) |-> t[g[n]][c]]
                   IN IF fill_method = "ffill" THEN FFill(col)[j] ELSE BFill(col)[j]
              ELSE t[i][c]]]

\* The statements in the order of the code: the dates are parsed, and
\* _to_datetime raises, before fill_method is looked at in the final if/elif.
prep_wellness(t, fill_method) ==
    IF ToDatetimeRaises(t) THEN [raised |-> "ValueError:date", table |-> <<>>]
    ELSE LET out == SortValues([i \in 1..Len(t) |-> CleanWellnessRow(t[i])])
         IN IF fill_method \in {"ffill", "bfill"}
            THEN [raised |-> "none", table |-> FillWithinPlayer(out, fill_method)]
            ELSE IF fill_method = "none"
            THEN [raised |-> "none", table |-> out]
            ELSE [raised |-> "ValueError:fill_method", table |-> <<>>]

(***************************************************************************)
(* Specification of prep_sessions on bounded raw session tables.  Every    *)
(* row has its own session_type, so an output row shows its input row.     *)
(***************************************************************************)
MaxRawSessionRows == 2

RawDates == {N(1), N(2), Text, NA}

RawSessionCells ==
    [player_id : PlayerIds,
     date      : RawDates,
     minutes   : {N(60), NA, Text},
     sRPE      : {N(5), NA, Text}]

InitPrepSessions ==
    /\ pc = "prep_sessions"
    /\ \E cs \in SeqsUpTo(RawSessionCells, MaxRawSessionRows) :
          sessions = [i \in 1..Len(cs) |->
                        [player_id     |-> cs[i].player_id,
                         date          |-> cs[i].date,
                         session_type  |-> N(i),
                         minutes       |-> cs[i].minutes,
                         sRPE          |-> cs[i].sRPE,
                         external_load |-> IF i = 1 THEN Text ELSE N(100),
                         total_accels  |-> N(20),
                         jump_count    |-> NA]]
    /\ players = <<>>
    /\ wellness = <<>>
    /\ daily = <<>>
    /\ args = <<>>
    /\ ret = <<>>
    /\ raised = "none"
    /\ NoRun

PrepSessions ==
    /\ pc = "prep_sessions"
    /\ LET c == prep_sessions(sessions)
       IN /\ ret' = c.table
          /\ raised' = c.raised
    /\ pc' = "returned"
    /\ UNCHANGED <<players, sessions, wellness, daily, args, locals, trace, files>>

NextPrepSessions == PrepSessions

SpecPrepSessions == InitPrepSessions /\ [][NextPrepSessions]_vars

\* A raw cell as a number: itself when it is one, missing otherwise.
AsNumber(c) == IF c.k = "num" THEN c ELSE NA

\* Output row q is input row i, cleaned.
IsCleaned(q, i) ==
    /\ ret[q].session_type = sessions[i].session_type
    /\ ret[q].player_id = sessions[i].player_id
    /\ ret[q].date = sessions[i].date.v
    /\ ret[q].minutes = AsNumber(sessions[i].minutes)
    /\ ret[q].sRPE = AsNumber(sessions[i].sRPE)
    /\ ret[q].external_load = AsNumber(sessions[i].external_load)
    /\ ret[q].total_accels = AsNumber(sessions[i].total_accels)
    /\ ret[q].jump_count = AsNumber(sessions[i].jump_count)

\* C9: prep_sessions fails with a date-parse error exactly when at least one
\* date is no parseable date (an unparseable string or an empty cell); otherwise
\* it returns the rows of its input, none dropped or added and a non-numeric
\* cell missing, in ascending (player_id, date) order, with internal_load =
\* minutes x sRPE, missing whenever either operand is missing.
C9_PrepSessions ==
    pc = "returned" =>
        /\ raised \in {"none", "ValueError:date"}
        /\ (raised = "ValueError:date")
              <=> (\E i \in 1..Len(sessions) : sessions[i].date.k # "num")
        /\ raised = "ValueError:date" => ret = <<>>
        /\ raised = "none" =>
              /\ Len(ret) = Len(sessions)
              /\ \A i \in 1..Len(sessions) :
                    Cardinality({q \in 1..Len(ret) : IsCleaned(q, i)}) = 1
              /\ \A q \in 1..(Len(ret) - 1) :
                    \/ ret[q].player_id < ret[q + 1].player_id
                    \/ /\ ret[q].player_id = ret[q + 1].player_id
                       /\ ret[q].date <= ret[q + 1].date
              /\ \A q \in 1..Len(ret) :
                    ret[q].internal_load =
                        IF ret[q].minutes.k = "num" /\ ret[q].sRPE.k = "num"
                        THEN N(ret[q].minutes.v * ret[q].sRPE.v)
                        ELSE NA

\* prep_sessions has reordered two rows, made a non-numeric minutes cell
\* missing and computed a load of 300.
C9_Witness ==
    /\ pc = "returned"
    /\ raised = "none"
    /\ Len(ret) = 2
    /\ ret[1].session_type = N(2)
    /\ sessions[1].minutes = Text
    /\ IsNA(ret[2].internal_load)
    /\ ret[1].internal_load = N(300)

(***************************************************************************)
(* Specification of prep_wellness on bounded raw wellness tables           *)
(***************************************************************************)
MaxRawWellnessRows == 2

RawWellnessCells ==
    [player_id   : PlayerIds,
     date        : {N(1), N(2), Text},
     sleep_hours : {N(7), N(8), NA, Text}]

FillMethods == {"ffill", "bfill", "none", "linear"}

InitPrepWellness ==
    /\ pc = "prep_wellness"
    /\ \E cs \in SeqsUpTo(RawWellnessCells, MaxRawWellnessRows) :
          wellness = [i \in 1..Len(cs) |->
                        [player_id     |-> cs[i].player_id,
                         date          |-> cs[i].date,
                         sleep_hours   |-> cs[i].sleep_hours,
                         sleep_quality |-> N(3),
                         soreness      |-> N(5),
                         fatigue       |-> N(5),
                         stress        |-> IF i = 1 THEN NA ELSE N(5),
                         mood          |-> N(5)]]
    /\ \E f \in FillMethods : args = [fill_method |-> f]
    /\ players = <<>>
    /\ sessions = <<>>
    /\ daily = <<>>
    /\ ret = <<>>
    /\ raised = "none"
    /\ NoRun

PrepWellness ==
    /\ pc = "prep_wellness"
    /\ LET c == prep_wellness(wellness, args.fill_method)
       IN /\ ret' = c.table
          /\ raised' = c.raised
    /\ pc' = "returned"
    /\ UNCHANGED <<players, sessions, wellness, daily, args, locals, trace, files>>

NextPrepWellness == PrepWellness

SpecPrepWellness == InitPrepWellness /\ [][NextPrepWellness]_vars

\* C10: prep_wellness called with a fill_method outside {ffill, bfill, none}
\* always fails with the unsupported-option error, whatever the table holds:
\* also when the table holds an unparseable date.
C10_UnsupportedFillMethodFirst ==
    (pc = "returned" /\ args.fill_method \notin {"ffill", "bfill", "none"})
        => raised = "ValueError:fill_method"

(***************************************************************************)
(* Specification of prep_wellness on raw wellness tables with parseable    *)
(* dates and a supported fill_method.  mood is never missing and is the    *)
(* position of the row in the input, so an output row shows its input row. *)
(***************************************************************************)
MaxFillRows == 3

FillCells ==
    [player_id   : PlayerIds,
     date        : {N(1), N(2)},
     sleep_hours : {N(7), N(8), NA}]

InitFill ==
    /\ pc = "prep_wellness"
    /\ \E cs \in SeqsUpTo(FillCells, MaxFillRows) :
          wellness = [i \in 1..Len(cs) |->
                        [player_id     |-> cs[i].player_id,
                         date          |-> cs[i].date,
                         sleep_hours   |-> cs[i].sleep_hours,
                         sleep_quality |-> N(3),
                         soreness      |-> N(5),
                         fatigue       |-> N(5),
                         stress        |-> N(5),
                         mood          |-> N(i)]]
    /\ \E f \in {"ffill", "bfill", "none"} : args = [fill_method |-> f]
    /\ players = <<>>
    /\ sessions = <<>>
    /\ daily = <<>>
    /\ ret = <<>>
    /\ raised = "none"
    /\ NoRun

NextFill == PrepWellness

SpecFill == InitFill /\ [][NextFill]_vars

\* sleep_hours of the input row that output row r was made from.
InputSleepHours(r) == wellness[ret[r].mood.v].sleep_hours

\* The output rows of the player of row r, among the rows in Q, whose input
\* sleep_hours is present.
DonorRows(r, Q) ==
    {q \in Q : ret[q].player_id = ret[r].player_id /\ ~IsNA(InputSleepHours(q))}

SetMax(S) == CHOOSE x \in S : \A y \in S : y <= x

SetMin(S) == CHOOSE x \in S : \A y \in S : x <= y

\* C15: prep_wellness returns the rows in ascending (player_id, date) order; a
\* value that is present is never changed; with 'ffill' a missing value becomes
\* the value of the nearest earlier row of the same player that has one, with
\* 'bfill' that of the nearest later such row, and it stays missing when that
\* player has no such row, whatever the rows of other players hold; with 'none'
\* every missing value stays missing.
C15_FillWithinPlayer ==
    (pc = "returned" /\ raised = "none") =>
        /\ Len(ret) = Len(wellness)
        /\ \A i \in 1..Len(wellness) : \E r \in 1..Len(ret) : ret[r].mood = N(i)
        /\ \A r \in 1..(Len(ret) - 1) :
              \/ ret[r].player_id < ret[r + 1].player_id
              \/ ret[r].player_id = ret[r + 1].player_id /\ ret[r].date <= ret[r + 1].date
        /\ \A r \in 1..Len(ret) :
              LET earlier == DonorRows(r, 1..(r - 1))
                  later   == DonorRows(r, (r + 1)..Len(ret))
              IN /\ ret[r].player_id = wellness[ret[r].mood.v].player_id
                 /\ ret[r].date = wellness[ret[r].mood.v].date.v
                 /\ ret[r].stress = N(5)
                 /\ ~IsNA(InputSleepHours(r)) => ret[r].sleep_hours = InputSleepHours(r)
                 /\ (IsNA(InputSleepHours(r)) /\ args.fill_method = "none")
                       => ret[r].sleep_hours = NA
                 /\ (IsNA(InputSleepHours(r)) /\ args.fill_method = "ffill")
                       => ret[r].sleep_hours =
                             IF earlier = {} THEN NA ELSE InputSleepHours(SetMax(earlier))
                 /\ (IsNA(InputSleepHours(r)) /\ args.fill_method = "bfill")
                       => ret[r].sleep_hours =
                             IF later = {} THEN NA ELSE InputSleepHours(SetMin(later))

\* A forward fill of three rows given out of order: player 1 has a value on
\* day 1 and none on day 2, player 2 has none on day 1.  The gap of player 1
\* is filled from its own day 1, the gap of player 2 stays missing although
\* the row above it holds a value.
C15_Witness ==
    /\ pc = "returned"
    /\ raised = "none"
    /\ args.fill_method = "ffill"
    /\ Len(ret) = 3
    /\ wellness[1].player_id = 2
    /\ ret[1].player_id = 1 /\ ret[1].sleep_hours = N(7)
    /\ ret[2].player_id = 1 /\ InputSleepHours(2) = NA /\ ret[2].sleep_hours = N(7)
    /\ ret[3].player_id = 2 /\ InputSleepHours(3) = NA /\ ret[3].sleep_hours = NA

(***************************************************************************)
(* make_team_daily_table (src/src/reporting.py)                            *)
(*                                                                         *)
(* The columns of a table are the fields of its rows.  sort_values on one  *)
(* column uses the default quicksort, which is not stable: rows with equal *)
(* sort values may come out in any order, so the function is modelled by   *)
(* the set of tables it may return.  Missing sort values are placed last.  *)
(***************************************************************************)
Columns(t) == IF t = <<>> THEN {} ELSE DOMAIN t[1]

TeamCols ==
    {"date", "player_id", "player_name", "position", "status", "session_type",
     "minutes", "sRPE", "internal_load", "internal_load_7d", "internal_load_28d",
     "readiness_score", "flag_load_spike", "flag_low_readiness"}

\* A sort on the longest of the rolling windows 7 and 28 that is present.
SortColumnLongestWindow(cols) ==
    IF "internal_load_28d" \in cols THEN "internal_load_28d"
    ELSE IF "internal_load_7d" \in cols THEN "internal_load_7d"
    ELSE "internal_load"

\* by=("internal_load_7d" if "internal_load_7d" in d0.columns else "internal_load")
SortColumn(cols) ==
    IF "internal_load_7d" \in cols THEN "internal_load_7d" ELSE "internal_load"

\* Cell a may stand directly above cell b in a column sorted with
\* ascending=False and the default na_position="last".
DescendingPair(a, b) == IsNA(b) \/ (~IsNA(a) /\ a.v >= b.v)

Arrangements(n) == {p \in [1..n -> 1..n] : \A i, j \in 1..n : p[i] = p[j] => i = j}

RECURSIVE OnDate(_, _)
\* d0[d0["date"] == snapshot_date]
OnDate(t, snapshot_date) ==
    IF t = <<>> THEN <<>>
    ELSE (IF t[1].date = snapshot_date THEN <<t[1]>> ELSE <<>>)
            \o OnDate(Tail(t), snapshot_date)

\* d0[cols] with the listed columns that exist
SelectColumns(r, cols) == [c \in DOMAIN r \cap cols |-> r[c]]

make_team_daily_table(d, snapshot_date) ==
    LET d0 == OnDate(d, snapshot_date)
        by == SortColumn(Columns(d))
    IN {[i \in 1..Len(d0) |-> SelectColumns(d0[p[i]], TeamCols)] :
          p \in {q \in Arrangements(Len(d0)) :
                    \A i \in 1..(Len(d0) - 1) :
                        DescendingPair(d0[q[i]][by], d0[q[i + 1]][by])}}

(***************************************************************************)
(* Specification of make_team_daily_table on bounded daily tables with     *)
(* and without the rolling columns of the windows 7 and 28.  player_id is  *)
(* the position of the row in the input; external_load is a daily column   *)
(* that the team table does not list.                                      *)
(***************************************************************************)
MaxTeamRows == 2

TeamDates == {1, 2}

TeamLoadCells == {N(100), N(200)}

TeamCells ==
    [date              : TeamDates,
     internal_load     : TeamLoadCells,
     internal_load_7d  : TeamLoadCells \cup {NA},
     internal_load_28d : TeamLoadCells]

TeamRollingColumns == SUBSET {"internal_load_7d", "internal_load_28d"}

InitTeam ==
    /\ pc = "make_team_daily_table"
    /\ \E cs \in SeqsUpTo(TeamCells, MaxTeamRows), rolling \in TeamRollingColumns :
          daily = [i \in 1..Len(cs) |->
                     [c \in {"player_id", "date", "internal_load", "external_load"}
                             \cup rolling |->
                        IF c = "player_id" THEN i
                        ELSE IF c = "external_load" THEN N(0)
                        ELSE cs[i][c]]]
    /\ \E sd \in TeamDates : args = [snapshot_date |-> sd]
    /\ players = <<>>
    /\ sessions = <<>>
    /\ wellness = <<>>
    /\ ret = <<>>
    /\ raised = "none"
    /\ NoRun

MakeTeamDailyTable ==
    /\ pc = "make_team_daily_table"
    /\ ret' \in make_team_daily_table(daily, args.snapshot_date)
    /\ raised' = "none"
    /\ pc' = "returned"
    /\ UNCHANGED <<players, sessions, wellness, daily, args, locals, trace, files>>

NextTeam == MakeTeamDailyTable

SpecTeam == InitTeam /\ [][NextTeam]_vars

\* The team table holds exactly the daily rows of the snapshot date, each once,
\* with the listed columns the daily table has.
OnlySnapshotRows ==
    /\ \A r \in 1..Len(ret) :
          /\ ret[r].date = args.snapshot_date
          /\ "external_load" \notin DOMAIN ret[r]
          /\ \A c \in DOMAIN ret[r] : ret[r][c] = daily[ret[r].player_id][c]
          /\ DOMAIN ret[r] = DOMAIN daily[ret[r].player_id] \ {"external_load"}
    /\ \A i \in 1..Len(daily) :
          Cardinality({r \in 1..Len(ret) : ret[r].player_id = i})
              = IF daily[i].date = args.snapshot_date THEN 1 ELSE 0

\* The team table is in descending order of column c, missing values last.
DescendingBy(c) ==
    \A r \in 1..(Len(ret) - 1) :
        \/ IsNA(ret[r + 1][c])
        \/ ~IsNA(ret[r][c]) /\ ret[r][c].v >= ret[r + 1][c].v

\* C13 as claimed: the team table holds exactly the daily rows of the snapshot
\* date, in descending order of the longest rolling window column present
\* (internal_load_28d with the windows 7 and 28), and of internal_load only
\* when no rolling column is present.
C13_SortedByLongestWindow ==
    pc = "returned" =>
        /\ OnlySnapshotRows
        /\ DescendingBy(IF "internal_load_28d" \in Columns(daily) THEN "internal_load_28d"
                        ELSE IF "internal_load_7d" \in Columns(daily) THEN "internal_load_7d"
                        ELSE "internal_load")

\* C13 amended: the team table holds exactly the daily rows of the snapshot
\* date, in descending order of internal_load_7d whenever the daily table has
\* that column, missing values last, and of internal_load whenever it has not,
\* whether or not internal_load_28d is present.
C13_SortedBySevenDay ==
    pc = "returned" =>
        /\ OnlySnapshotRows
        /\ "internal_load_7d" \in Columns(daily) => DescendingBy("internal_load_7d")
        /\ "internal_load_7d" \notin Columns(daily) => DescendingBy("internal_load")

\* Two rows of the snapshot date with both rolling columns: the row with the
\* higher 7-day load and the lower 28-day load comes first.
C13_Witness ==
    /\ pc = "returned"
    /\ Len(ret) = 2
    /\ "internal_load_28d" \in DOMAIN ret[1]
    /\ "internal_load_7d" \in DOMAIN ret[1]
    /\ ret[1].internal_load_7d = N(200) /\ ret[1].internal_load_28d = N(100)
    /\ ret[2].internal_load_7d = N(100) /\ ret[2].internal_load_28d = N(200)
    /\ ret[1].player_id = 2

(***************************************************************************)
(* make_fact_daily (src/src/powerbi_export.py) and make_daily_fact         *)
(* (src/src/reporting.py): the daily fact table of the BI export.          *)
(*                                                                         *)
(* A date is its day number in the year 2025 (day 32 is 1 February), so    *)
(* date_key is a number of the form YYYYMMDD and no day count.  player_id  *)
(* is a string identifier already, which astype(str) leaves as it is.      *)
(* The flag columns of a daily table are booleans.                         *)
(***************************************************************************)
MonthLengths == <<31, 28, 31, 30, 31, 30, 31, 31, 30, 31, 30, 31>>

RECURSIVE DateKeyFrom(_, _)
DateKeyFrom(n, month) ==
    IF n <= MonthLengths[month] THEN 2025 * 10000 + month * 100 + n
    ELSE DateKeyFrom(n - MonthLengths[month], month + 1)

\* df["date"].dt.strftime("%Y%m%d").astype(int)
DateKey(date) == DateKeyFrom(date, 1)

\* df[c].fillna(False).astype(bool)
FillnaFalseAsBool(f) == f = TRUE

FlagColumns == {"flag_load_spike", "flag_low_readiness"}

\* A keep list without readiness_score.
KeepWithoutReadinessScore ==
    {"date", "date_key", "player_id", "player_name", "position", "status",
     "session_type", "minutes", "sRPE", "external_load", "total_accels",
     "jump_count", "avg_hr", "internal_load", "internal_load_7d",
     "internal_load_28d", "readiness_raw", "load_pct_change",
     "flag_load_spike", "flag_low_readiness"}

\* keep of make_fact_daily
KeepFactDaily ==
    {"date", "date_key", "player_id", "player_name", "position", "status",
     "session_type", "minutes", "sRPE", "external_load", "total_accels",
     "jump_count", "avg_hr", "internal_load", "internal_load_7d",
     "internal_load_28d", "readiness_raw", "readiness_score", "load_pct_change",
     "flag_load_spike", "flag_low_readiness"}

\* keep of make_daily_fact: the same columns, the identity columns listed last
KeepDailyFact ==
    {"date", "date_key", "player_id", "session_type", "minutes", "sRPE",
     "external_load", "total_accels", "jump_count", "avg_hr", "internal_load",
     "internal_load_7d", "internal_load_28d", "readiness_raw", "readiness_score",
     "load_pct_change", "flag_load_spike", "flag_low_readiness",
     "player_name", "position", "status"}

\* One row of df[keep] after date_key was added and the flags were coerced.
FactRow(r, keep) ==
    [c \in (DOMAIN r \cup {"date_key"}) \cap keep |->
        IF c = "date_key" THEN DateKey(r.date)
        ELSE IF c \in FlagColumns THEN FillnaFalseAsBool(r[c])
        ELSE r[c]]

make_fact_daily(d) == SortValues([i \in 1..Len(d) |-> FactRow(d[i], KeepFactDaily)])

make_daily_fact(d) == SortValues([i \in 1..Len(d) |-> FactRow(d[i], KeepDailyFact)])

(***************************************************************************)
(* Specification of the two fact builders on bounded daily tables: one row *)
(* per (player_id, date), as merge_daily leaves them.  A row either has    *)
(* its wellness entry or lacks it; internal_load, readiness_score and      *)
(* sleep_hours carry the position of the row in the input.                 *)
(***************************************************************************)
MaxFactRows == 2

FactDates == {31, 32}

FactCells ==
    [player_id          : PlayerIds,
     date               : FactDates,
     has_wellness       : BOOLEAN,
     flag_load_spike    : BOOLEAN,
     flag_low_readiness : BOOLEAN]

InitFact ==
    /\ pc \in {"make_fact_daily", "make_daily_fact"}
    /\ \E cs \in SeqsUpTo(FactCells, MaxFactRows) :
          /\ \A i, j \in 1..Len(cs) : PlayerDate(cs[i]) = PlayerDate(cs[j]) => i = j
          /\ daily = [i \in 1..Len(cs) |->
                        [player_id          |-> cs[i].player_id,
                         date               |-> cs[i].date,
                         internal_load      |-> N(100 * i),
                         sleep_hours        |-> IF cs[i].has_wellness THEN N(6 + i) ELSE NA,
                         readiness_score    |-> IF cs[i].has_wellness THEN N(-i) ELSE NA,
                         load_pct_change    |-> NA,
                         flag_load_spike    |-> cs[i].flag_load_spike,
                         flag_low_readiness |-> cs[i].flag_low_readiness]]
    /\ players = <<>>
    /\ sessions = <<>>
    /\ wellness = <<>>
    /\ args = <<>>
    /\ ret = <<>>
    /\ raised = "none"
    /\ NoRun

MakeFactDaily ==
    /\ pc = "make_fact_daily"
    /\ ret' = make_fact_daily(daily)
    /\ raised' = "none"
    /\ pc' = "returned"
    /\ UNCHANGED <<players, sessions, wellness, daily, args, locals, trace, files>>

MakeDailyFact ==
    /\ pc = "make_daily_fact"
    /\ ret' = make_daily_fact(daily)
    /\ raised' = "none"
    /\ pc' = "returned"
    /\ UNCHANGED <<players, sessions, wellness, daily, args, locals, trace, files>>

NextFact == MakeFactDaily \/ MakeDailyFact

SpecFact == InitFact /\ [][NextFact]_vars

\* The positions of the fact rows of the (player_id, date) of daily row i.
FactRowsOf(i) == {r \in 1..Len(ret) : PlayerDate(ret[r]) = PlayerDate(daily[i])}

\* Column c of daily row i is read back from the fact table with its value.
ReadsBack(i, c) ==
    \A r \in FactRowsOf(i) : c \in DOMAIN ret[r] /\ ret[r][c] = daily[i][c]

OneFactRowPerDailyRow ==
    /\ Len(ret) = Len(daily)
    /\ \A i \in 1..Len(daily) : Cardinality(FactRowsOf(i)) = 1

ExplicitFlags ==
    \A r \in 1..Len(ret) :
        /\ FlagColumns \subseteq DOMAIN ret[r]
        /\ ret[r].flag_load_spike \in BOOLEAN
        /\ ret[r].flag_low_readiness \in BOOLEAN

\* C11 as claimed: the fact table has exactly one row per daily row, both flags
\* are an explicit true or false on every fact row, and every column of the
\* daily table other than the keys is read back from the fact table, by
\* (player_id, date), with the value it has in the daily table.
C11_EveryColumnReadsBack ==
    pc = "returned" =>
        /\ OneFactRowPerDailyRow
        /\ ExplicitFlags
        /\ \A i \in 1..Len(daily) :
              \A c \in DOMAIN daily[i] \ {"player_id", "date"} : ReadsBack(i, c)

\* C11 amended: the fact table has exactly one row per daily row, in ascending
\* (player_id, date) order, with a date_key of the form YYYYMMDD; both flags are
\* an explicit true or false on every fact row; the daily columns of the
\* export's fixed list are read back with the value they have in the daily
\* table, and a daily column outside the list, such as the wellness input
\* sleep_hours, is not in the fact table.
C11_ListedColumnsReadBack ==
    pc = "returned" =>
        /\ OneFactRowPerDailyRow
        /\ ExplicitFlags
        /\ \A i \in 1..Len(daily) :
              \A c \in {"internal_load", "readiness_score", "load_pct_change",
                         "flag_load_spike", "flag_low_readiness"} : ReadsBack(i, c)
        /\ \A r \in 1..Len(ret) :
              /\ "sleep_hours" \notin DOMAIN ret[r]
              /\ ret[r].date_key = IF ret[r].date = 31 THEN 20250131 ELSE 20250201
        /\ \A r \in 1..(Len(ret) - 1) :
              \/ ret[r].player_id < ret[r + 1].player_id
              \/ ret[r].player_id = ret[r + 1].player_id /\ ret[r].date < ret[r + 1].date

\* A fact table of two rows built from a daily table given in descending
\* order: one row with a wellness entry, one without, on either side of the
\* month boundary.
C11_Witness ==
    /\ pc = "returned"
    /\ Len(ret) = 2
    /\ daily[1].player_id = 2 /\ daily[2].player_id = 1
    /\ ret[1].internal_load = N(200) /\ ret[1].readiness_score = N(-2)
    /\ ret[1].date_key = 20250201
    /\ ret[2].internal_load = N(100) /\ ret[2].readiness_score = NA
    /\ ret[2].date_key = 20250131
    /\ ret[1].flag_load_spike /\ ~ret[2].flag_load_spike
    /\ daily[2].sleep_hours = N(8)

(***************************************************************************)
(* The pipeline runs: main() of notebooks/02_player_snapshot.py and of     *)
(* notebooks/03_export_powerbi.py.                                         *)
(*                                                                         *)
(* players, sessions and wellness are the tables load_data returned;       *)
(* locals holds the tables main() has bound so far, trace the statements   *)
(* of main() that have run, in order, and files the output files written.  *)
(* A file is <<name, player_id>>, with player_id 0 for a file that is not  *)
(* about one player.  Nothing in main() catches an exception.              *)
(***************************************************************************)

\* A callee that assigns into the frame it was handed: the caller's table
\* becomes the callee's working table.
PassedFrameAliased(df, out) == out

\* Every transform starts with df.copy() (or builds its table with
\* sort_values / pd.merge, which return new frames), so what the callee assigns
\* to is not the frame the caller passed in: the caller's table after the call.
PassedFrame(df, out) == df

\* An exception that is caught and dropped: main() goes on with the next statement.
Swallowed(next) == next

\* An exception raised inside a call leaves main(): no later statement runs.
Propagated(next) == "failed"

After(error, next) == IF error = "none" THEN next ELSE Propagated(next)

\* colname = f"{load_col}_{w}d": the rolling columns of the windows (7, 28)
\* under their column names.
WindowColumns(t) ==
    [i \in 1..Len(t) |->
        [c \in (DOMAIN t[i] \ {"roll"}) \cup {"internal_load_7d", "internal_load_28d"} |->
            IF c = "internal_load_7d" THEN t[i].roll[7]
            ELSE IF c = "internal_load_28d" THEN t[i].roll[28]
            ELSE t[i][c]]]

\* a <= b for two numbers v / sqrt(d).
CellLE(a, b) ==
    IF a.v <= 0 /\ b.v >= 0 THEN TRUE
    ELSE IF a.v > 0 /\ b.v <= 0 THEN FALSE
    ELSE IF a.v > 0 THEN a.v * a.v * b.d <= b.v * b.v * a.d
    ELSE a.v * a.v * b.d >= b.v * b.v * a.d

\* d0.sort_values(col, ascending=...)["player_id"].iloc[0]: the player of a row
\* that may come first; a missing value comes first only if all are missing.
FirstPlayerBy(d0, col, ascending) ==
    LET present == {i \in 1..Len(d0) : ~IsNA(d0[i][col])}
        first   == IF present = {} THEN 1..Len(d0)
                   ELSE {i \in present : \A j \in present :
                            IF ascending THEN CellLE(d0[i][col], d0[j][col])
                            ELSE CellLE(d0[j][col], d0[i][col])}
    IN {d0[i].player_id : i \in first}

\* daily["date"].max()
LatestDate(d) == CHOOSE x \in {d[i].date : i \in 1..Len(d)} :
                    \A i \in 1..Len(d) : d[i].date <= x

NoLocals ==
    [sessions_clean |-> <<>>, wellness_clean |-> <<>>, sessions_feat |-> <<>>,
     wellness_feat |-> <<>>, merged |-> <<>>, daily |-> <<>>,
     snapshot_date |-> 0, pids |-> <<>>]

PowerBIFiles ==
    {<<"powerbi/dim_players.csv", 0>>, <<"powerbi/dim_calendar.csv", 0>>,
     <<"powerbi/fact_daily.csv", 0>>}

MaxFaults == 2

RawSessionRow(p, d) ==
    [player_id |-> p, date |-> N(d), session_type |-> Text, minutes |-> N(60),
     sRPE |-> N(5), external_load |-> N(0), total_accels |-> N(0),
     jump_count |-> N(0)]

RawWellnessRow(p, d) ==
    [player_id |-> p, date |-> N(d), sleep_hours |-> N(8), sleep_quality |-> N(3),
     soreness |-> N(5), fatigue |-> N(5), stress |-> N(5), mood |-> N(5)]

LoadedSessions == << RawSessionRow(2, 2), RawSessionRow(1, 1) >>

LoadedWellness == << RawWellnessRow(1, 1), RawWellnessRow(2, 2) >>

LoadedPlayers ==
    << [player_id |-> 1, player_name |-> N(1)], [player_id |-> 2, player_name |-> N(2)] >>

\* What the files of a run may hold instead: an unparseable date, another date
\* or player (a duplicated or an unmatched key), a value out of range.
Faults ==
    {[tab |-> "sessions", row |-> r, col |-> "date", val |-> x] :
        r \in 1..2, x \in {Text, N(1), N(2)}}
    \cup {[tab |-> "sessions", row |-> r, col |-> "player_id", val |-> x] :
        r \in 1..2, x \in PlayerIds}
    \cup {[tab |-> "sessions", row |-> r, col |-> "sRPE", val |-> x] :
        r \in 1..2, x \in {N(8), N(11)}}
    \cup {[tab |-> "wellness", row |-> r, col |-> "date", val |-> x] :
        r \in 1..2, x \in {Text, N(1), N(2)}}
    \cup {[tab |-> "wellness", row |-> r, col |-> "player_id", val |-> x] :
        r \in 1..2, x \in PlayerIds}
    \cup {[tab |-> "wellness", row |-> r, col |-> "mood", val |-> x] :
        r \in 1..2, x \in {N(0), N(1)}}
    \cup {[tab |-> "players", row |-> r, col |-> "player_id", val |-> x] :
        r \in 1..2, x \in PlayerIds}

InitPipeline ==
    /\ pc = "main:prep_sessions"
    /\ \E es \in SeqsUpTo(Faults, MaxFaults) :
          /\ sessions = WithOddCells("sessions", LoadedSessions, es)
          /\ wellness = WithOddCells("wellness", LoadedWellness, es)
          /\ players = WithOddCells("players", LoadedPlayers, es)
    /\ \E nb \in {"02_player_snapshot", "03_export_powerbi"}, b \in BOOLEAN :
          args = [notebook |-> nb, pct_change_pads |-> b]
    /\ daily = <<>>
    /\ ret = <<>>
    /\ raised = "none"
    /\ locals = NoLocals
    /\ trace = <<>>
    /\ files = {}

\* sessions_clean = prep_sessions(sessions)
RunPrepSessions ==
    /\ pc = "main:prep_sessions"
    /\ LET c == prep_sessions(sessions)
       IN /\ sessions' = PassedFrame(sessions, c.table)
          /\ locals' = [locals EXCEPT !.sessions_clean = c.table]
          /\ raised' = c.raised
          /\ pc' = After(c.raised, "main:prep_wellness")
    /\ trace' = Append(trace, "prep_sessions")
    /\ UNCHANGED <<players, wellness, daily, args, ret, files>>

\* wellness_clean = prep_wellness(wellness, fill_method="ffill")
RunPrepWellness ==
    /\ pc = "main:prep_wellness"
    /\ LET c == prep_wellness(wellness, "ffill")
       IN /\ wellness' = PassedFrame(wellness, c.table)
          /\ locals' = [locals EXCEPT !.wellness_clean = c.table]
          /\ raised' = c.raised
          /\ pc' = After(c.raised, "main:validate_ranges")
    /\ trace' = Append(trace, "prep_wellness")
    /\ UNCHANGED <<players, sessions, daily, args, ret, files>>

\* validate_ranges(sessions_clean, wellness_clean)
RunValidateRanges ==
    /\ pc = "main:validate_ranges"
    /\ LET e == validate_ranges(locals.sessions_clean, locals.wellness_clean)
       IN /\ raised' = e
          /\ pc' = After(e, "main:compute_rolling_load")
    /\ trace' = Append(trace, "validate_ranges")
    /\ UNCHANGED <<players, sessions, wellness, daily, args, ret, locals, files>>

\* sessions_feat = compute_rolling_load(sessions_clean, windows=(7, 28))
RunComputeRollingLoad ==
    /\ pc = "main:compute_rolling_load"
    /\ LET t == WindowColumns(compute_rolling_load(locals.sessions_clean, DefaultWindows, 1))
       IN locals' = [locals EXCEPT !.sessions_clean = PassedFrame(@, t),
                                   !.sessions_feat = t]
    /\ pc' = "main:compute_readiness_score"
    /\ trace' = Append(trace, "compute_rolling_load")
    /\ UNCHANGED <<players, sessions, wellness, daily, args, ret, raised, files>>

\* wellness_feat = compute_readiness_score(wellness_clean, method="simple",
\*                                         standardize_within_player=True)
RunComputeReadinessScore ==
    /\ pc = "main:compute_readiness_score"
    /\ LET c == compute_readiness_score(locals.wellness_clean, "simple", TRUE)
       IN /\ locals' = [locals EXCEPT !.wellness_clean = PassedFrame(@, c.table),
                                      !.wellness_feat = c.table]
          /\ raised' = c.raised
          /\ pc' = After(c.raised, "main:merge_daily")
    /\ trace' = Append(trace, "compute_readiness_score")
    /\ UNCHANGED <<players, sessions, wellness, daily, args, ret, files>>

\* daily = merge_daily(players, sessions_feat, wellness_feat)
RunMergeDaily ==
    /\ pc = "main:merge_daily"
    /\ LET m == merge_daily(players, locals.sessions_feat, locals.wellness_feat)
       IN /\ players' = PassedFrame(players, m.table)
          /\ locals' = [locals EXCEPT !.sessions_feat = PassedFrame(@, m.table),
                                      !.wellness_feat = PassedFrame(@, m.table),
                                      !.merged = m.table]
          /\ raised' = m.raised
          /\ pc' = After(m.raised, "main:add_simple_flags")
    /\ trace' = Append(trace, "merge_daily")
    /\ UNCHANGED <<sessions, wellness, daily, args, ret, files>>

\* daily = add_simple_flags(daily); 02 then takes the snapshot date, 03 exports.
RunAddSimpleFlags ==
    /\ pc = "main:add_simple_flags"
    /\ LET t == add_simple_flags(locals.merged, args.pct_change_pads)
       IN locals' = [locals EXCEPT !.merged = PassedFrame(@, t), !.daily = t]
    /\ pc' = IF args.notebook = "02_player_snapshot" THEN "main:snapshot_date"
             ELSE "main:export_powerbi"
    /\ trace' = Append(trace, "add_simple_flags")
    /\ UNCHANGED <<players, sessions, wellness, daily, args, ret, raised, files>>

\* 02, lines 32-36: daily["date"] = pd.to_datetime(daily["date"]), assigned by
\* main() into its own table, and snapshot_date = daily["date"].max().
RunSnapshotDate ==
    /\ pc = "main:snapshot_date"
    /\ locals' = [locals EXCEPT
                    !.daily = [i \in 1..Len(@) |-> SetColumn(@[i], "date", @[i].date)],
                    !.snapshot_date = LatestDate(locals.daily)]
    /\ pc' = "main:export_team_daily_report"
    /\ trace' = Append(trace, "snapshot_date")
    /\ UNCHANGED <<players, sessions, wellness, daily, args, ret, raised, files>>

\* 02, line 72: export_team_daily_report writes the team table of the snapshot date.
RunExportTeamDailyReport ==
    /\ pc = "main:export_team_daily_report"
    /\ \E team_table \in make_team_daily_table(locals.daily, locals.snapshot_date) :
          /\ locals' = [locals EXCEPT !.daily = PassedFrame(@, team_table)]
          /\ files' = files \cup {<<"team_report.csv", 0>>}
    /\ pc' = "main:export_powerbi_tables"
    /\ trace' = Append(trace, "export_team_daily_report")
    /\ UNCHANGED <<players, sessions, wellness, daily, args, ret, raised>>

\* 02, lines 77-92: export_powerbi_tables writes the three BI tables; then the
\* one or two snapshot players are picked from the rows of the snapshot date.
RunExportPowerBITables ==
    /\ pc = "main:export_powerbi_tables"
    /\ LET fact_daily == make_daily_fact(locals.daily)
           d0         == OnDate(locals.daily, locals.snapshot_date)
       IN \E high_load_pid \in FirstPlayerBy(d0, "internal_load_7d", FALSE),
             low_ready_pid \in FirstPlayerBy(d0, "readiness_score", TRUE) :
             locals' = [locals EXCEPT
                          !.daily = PassedFrame(@, fact_daily),
                          !.pids  = IF low_ready_pid # high_load_pid
                                    THEN <<high_load_pid, low_ready_pid>>
                                    ELSE <<high_load_pid>>]
    /\ players' = PassedFrame(players, players)
    /\ files' = files \cup PowerBIFiles
    /\ pc' = "main:export_player_snapshot"
    /\ trace' = Append(trace, "export_powerbi_tables")
    /\ UNCHANGED <<sessions, wellness, daily, args, ret, raised>>

\* 02, lines 94-104: one turn of the loop; export_player_snapshot writes the
\* plot and the summary of one player.
RunExportPlayerSnapshot ==
    /\ pc = "main:export_player_snapshot"
    /\ locals.pids # <<>>
    /\ LET pid == Head(locals.pids)
       IN files' = files \cup {<<"figures/player_snapshot.png", pid>>,
                                <<"player_summary.txt", pid>>}
    /\ locals' = [locals EXCEPT !.pids = Tail(@)]
    /\ pc' = IF Tail(locals.pids) = <<>> THEN "done" ELSE "main:export_player_snapshot"
    /\ trace' = Append(trace, "export_player_snapshot")
    /\ UNCHANGED <<players, sessions, wellness, daily, args, ret, raised>>

\* 03, line 31: export_powerbi writes the three BI tables.
RunExportPowerBI ==
    /\ pc = "main:export_powerbi"
    /\ LET fact_daily == make_fact_daily(locals.daily)
       IN locals' = [locals EXCEPT !.daily = PassedFrame(@, fact_daily)]
    /\ players' = PassedFrame(players, players)
    /\ files' = files \cup PowerBIFiles
    /\ pc' = "done"
    /\ trace' = Append(trace, "export_powerbi")
    /\ UNCHANGED <<sessions, wellness, daily, args, ret, raised>>

NextPipeline ==
    \/ RunPrepSessions
    \/ RunPrepWellness
    \/ RunValidateRanges
    \/ RunComputeRollingLoad
    \/ RunComputeReadinessScore
    \/ RunMergeDaily
    \/ RunAddSimpleFlags
    \/ RunSnapshotDate
    \/ RunExportTeamDailyReport
    \/ RunExportPowerBITables
    \/ RunExportPlayerSnapshot
    \/ RunExportPowerBI

SpecPipeline == InitPipeline /\ [][NextPipeline]_vars

\* The table bound to each name of main(), by the statement that binds it.
ProducedBy ==
    [sessions_clean |-> "prep_sessions", wellness_clean |-> "prep_wellness",
     sessions_feat |-> "compute_rolling_load",
     wellness_feat |-> "compute_readiness_score",
     merged |-> "merge_daily", daily |-> "add_simple_flags"]

HasRun(stage) == \E k \in 1..Len(trace) : trace[k] = stage

\* C14: no statement of a run changes a table that exists when it starts: the
\* loaded players, sessions and wellness tables and every table an earlier
\* transform returned have the same rows, in the same order, with the same
\* columns and values after the call as before it, whether the call returns a
\* table or raises; the table a transform returns is bound to a name of its own.
C14_InputsUnchanged ==
    [][/\ players' = players
       /\ sessions' = sessions
       /\ wellness' = wellness
       /\ \A n \in DOMAIN ProducedBy :
             /\ HasRun(ProducedBy[n]) => locals'[n] = locals[n]
             /\ ~HasRun(ProducedBy[n]) => locals[n] = <<>>]_vars

\* A finished run of notebook 03 on sessions given in descending order: the
\* cleaned table is sorted, the loaded one still is not, and every table of the
\* run, the flagged daily table that was exported included, is there.
C14_Witness ==
    /\ pc = "done"
    /\ args.notebook = "03_export_powerbi"
    /\ sessions = LoadedSessions
    /\ locals.sessions_clean[1].player_id = 1
    /\ Len(locals.sessions_feat) = 2
    /\ Len(locals.wellness_feat) = 2
    /\ Len(locals.merged) = 2
    /\ Len(locals.daily) = 2
    /\ "flag_load_spike" \in DOMAIN locals.daily[1]
    /\ "flag_load_spike" \notin DOMAIN locals.merged[1]
    /\ <<"powerbi/fact_daily.csv", 0>> \in files

PreExportOrder ==
    <<"prep_sessions", "prep_wellness", "validate_ranges", "compute_rolling_load",
      "compute_readiness_score", "merge_daily", "add_simple_flags">>

\* The statements of main() in the order of the notebook; the snapshot loop of
\* notebook 02 has one or two turns.
NotebookOrder ==
    IF args.notebook = "03_export_powerbi" THEN PreExportOrder \o <<"export_powerbi">>
    ELSE PreExportOrder \o <<"snapshot_date", "export_team_daily_report",
                             "export_powerbi_tables", "export_player_snapshot",
                             "export_player_snapshot">>

ErrorsOfStage ==
    [prep_sessions |-> {"ValueError:date"},
     prep_wellness |-> {"ValueError:date"},
     validate_ranges |-> {"RangeError:minutes", "RangeError:sRPE",
                          "RangeError:external_load", "RangeError:total_accels",
                          "RangeError:jump_count", "RangeError:sleep_quality",
                          "RangeError:soreness", "RangeError:fatigue",
                          "RangeError:stress", "RangeError:mood",
                          "RangeError:sleep_hours"},
     merge_daily |-> {"MergeError"}]

\* The files the statements that have run write.
FilesOfTrace ==
    (IF HasRun("export_team_daily_report") THEN {<<"team_report.csv", 0>>} ELSE {})
    \cup (IF HasRun("export_powerbi_tables") \/ HasRun("export_powerbi")
          THEN PowerBIFiles ELSE {})

\* C16: in every run the statements of main() happen in the order preprocess,
\* validate_ranges, feature computation, merge, flags, export, validate_ranges
\* after both preprocessors and before either feature engine; a stage that
\* fails is the last statement that runs and the run has then written no file;
\* files are written by the export statements only, after all seven earlier
\* stages have succeeded, and a file once written stays.
C16_StageOrder ==
    /\ [](/\ Len(trace) <= Len(NotebookOrder)
          /\ trace = SubSeq(NotebookOrder, 1, Len(trace))
          /\ raised # "none" =>
                /\ trace # <<>>
                /\ trace[Len(trace)] \in DOMAIN ErrorsOfStage
                /\ raised \in ErrorsOfStage[trace[Len(trace)]]
                /\ files = {}
          /\ files # {} => Len(trace) > Len(PreExportOrder)
          /\ \A f \in files : f \in FilesOfTrace \/ f[2] \in PlayerIds
          /\ FilesOfTrace \subseteq files)
    /\ [][/\ raised = "none"
          /\ Len(trace') = Len(trace) + 1
          /\ files \subseteq files']_vars

\* A run whose wellness file holds two entries of one player and date: the
\* merge fails, after both preprocessors, validate_ranges and both feature
\* engines have run, and nothing has been exported.
C16_Witness ==
    /\ pc = "failed"
    /\ raised = "MergeError"
    /\ trace = SubSeq(PreExportOrder, 1, 6)
    /\ HasDuplicate(PlayerDateKeys(locals.wellness_feat))
    /\ files = {}

====
